---------------------------- MODULE Spec2Model ----------------------------
(***************************************************************************)
(* ChartGen: schema inference (JsonUploader.tsx), chart intent resolution  *)
(* and the chat (Chat.tsx), the data transformer (ChartPreview.tsx), the   *)
(* code generator's emitted transformation (CodeGenerator, in Chat.tsx)    *)
(* and the top-level session state (App).                                  *)
(*                                                                         *)
(* JavaScript strings are sequences of one-character strings, so that the  *)
(* regular expressions, Number(), parseFloat(), toLowerCase(), includes()  *)
(* and localeCompare() are computed character by character.                *)
(***************************************************************************)
EXTENDS Integers, Sequences, FiniteSets, TLC

VARIABLES
    \* App: the session's dataset, schema and chart configuration
    data, schema, chartConfig,
    \* ChartPreview: the series its useMemo holds for (data, config)
    chartData,
    \* JsonUploader: its own schema, row count and error message, and the
    \* file a FileReader is still reading
    upSchema, rowCount, error, reading,
    \* Chat: the conversation, the loading flag, the submission awaiting its reply
    messages, isLoading, pending,
    \* schema inference as a function: the JSON text's rows and analyzeSchema's result
    sData, sResult,
    \* the transformer as a function: the environment's time zone, the dataset,
    \* the configuration, and the outputs of the preview and of the emitted code
    tzWest, tText, tData, tConfig, tOut, tGen,
    \* the resolver as a function: the request, the schema and the configuration
    rText, rSchema, rConfig

appVars == <<data, schema, chartConfig, chartData, upSchema, rowCount, error, reading,
             messages, isLoading, pending>>

schemaVars == <<sData, sResult>>

transformVars == <<tzWest, tText, tData, tConfig, tOut, tGen>>

resolveVars == <<rText, rSchema, rConfig>>

vars == <<appVars, schemaVars, transformVars, resolveVars>>

\* an absent (null) value of a state variable, and a present one
None == <<>>

Some(x) == <<x>>

(***************************************************************************)
(* Bounds of the model.                                                    *)
(***************************************************************************)
\* rows of a dataset drawn for schema inference
MaxRows == 2
\* rows of the tall datasets drawn for the coverage computation
MaxTallRows == 40
\* messages the conversation may hold before the chat stops accepting
MaxMessages == 3
\* phrases a request given to the resolver is made of
MaxPhrases == 2

(***************************************************************************)
(* Characters and strings.                                                 *)
(***************************************************************************)
Digits == <<"0", "1", "2", "3", "4", "5", "6", "7", "8", "9">>

IsDigit(c) == \E i \in 1..10 : Digits[i] = c

DigitVal(c) == (CHOOSE i \in 1..10 : Digits[i] = c) - 1

UpperCase == <<"A","B","C","D","E","F","G","H","I","J","K","L","M",
               "N","O","P","Q","R","S","T","U","V","W","X","Y","Z">>

LowerCase == <<"a","b","c","d","e","f","g","h","i","j","k","l","m",
               "n","o","p","q","r","s","t","u","v","w","x","y","z">>

IsUpper(c) == \E i \in 1..26 : UpperCase[i] = c

IsLower(c) == \E i \in 1..26 : LowerCase[i] = c

\* one character of String.prototype.toLowerCase
LowerChar(c) ==
    IF IsUpper(c) THEN LowerCase[CHOOSE i \in 1..26 : UpperCase[i] = c] ELSE c

ToLowerCase(s) == [i \in 1..Len(s) |-> LowerChar(s[i])]

\* \s of the regular expressions and the white space String.prototype.trim strips
IsSpace(c) == c = " "

\* \w of the regular expressions
IsWordChar(c) == IsDigit(c) \/ IsUpper(c) \/ IsLower(c) \/ c = "_"

RECURSIVE SkipSpaces(_, _)
SkipSpaces(s, i) ==
    IF i <= Len(s) /\ IsSpace(s[i]) THEN SkipSpaces(s, i + 1) ELSE i

RECURSIVE SkipDigits(_, _)
SkipDigits(s, i) ==
    IF i <= Len(s) /\ IsDigit(s[i]) THEN SkipDigits(s, i + 1) ELSE i

RECURSIVE SkipWord(_, _)
SkipWord(s, i) ==
    IF i <= Len(s) /\ IsWordChar(s[i]) THEN SkipWord(s, i + 1) ELSE i

RECURSIVE TrimEnd(_)
TrimEnd(s) ==
    IF Len(s) > 0 /\ IsSpace(s[Len(s)]) THEN TrimEnd(SubSeq(s, 1, Len(s) - 1)) ELSE s

\* String.prototype.trim
Trim(s) == TrimEnd(SubSeq(s, SkipSpaces(s, 1), Len(s)))

\* s.startsWith(p, i)
StartsAt(s, p, i) ==
    /\ i + Len(p) - 1 <= Len(s)
    /\ \A j \in 1..Len(p) : s[i + j - 1] = p[j]

\* String.prototype.includes
Includes(s, p) == \E i \in 1..(Len(s) + 1) : StartsAt(s, p, i)

(***************************************************************************)
(* JSON values. t is the kind of the value; n the number (or 1/0 for a     *)
(* boolean); s the characters of a string; e the own enumerable entries of *)
(* an object or an array, in own-property order.                           *)
(***************************************************************************)
JNull == [t |-> "null", n |-> 0, s |-> <<>>, e |-> <<>>]

JNum(k) == [t |-> "number", n |-> k, s |-> <<>>, e |-> <<>>]

JBool(b) == [t |-> "boolean", n |-> IF b THEN 1 ELSE 0, s |-> <<>>, e |-> <<>>]

JStr(str) == [t |-> "string", n |-> 0, s |-> str, e |-> <<>>]

JArr(entries) == [t |-> "array", n |-> 0, s |-> <<>>, e |-> entries]

JObj(entries) == [t |-> "object", n |-> 0, s |-> <<>>, e |-> entries]

\* the value of a property an object does not have
Undefined == [t |-> "undefined", n |-> 0, s |-> <<>>, e |-> <<>>]

Entry(key, value) == [k |-> key, v |-> value]

\* typeof value
TypeOf(value) ==
    IF value.t \in {"null", "array", "object"} THEN "object" ELSE value.t

(***************************************************************************)
(* Own-property order of a JavaScript object: the keys that are canonical  *)
(* array indices first, in ascending numeric order, then the other keys in *)
(* insertion order. JSON.parse creates the rows' properties, and           *)
(* Object.entries enumerates, in this order.                               *)
(***************************************************************************)
RECURSIVE DecimalValue(_, _)
DecimalValue(s, i) ==
    IF i = 0 THEN 0 ELSE 10 * DecimalValue(s, i - 1) + DigitVal(s[i])

\* (the keys of the model have at most 9 digits, below the bound 2^32 - 2)
IsArrayIndex(key) ==
    /\ Len(key) \in 1..9
    /\ \A i \in 1..Len(key) : IsDigit(key[i])
    /\ (key[1] = "0" => Len(key) = 1)

IndexValue(key) == DecimalValue(key, Len(key))

RECURSIVE InsertIndexed(_, _)
\* rec inserted among records sorted by ascending index value of .k
InsertIndexed(sorted, rec) ==
    IF sorted = <<>> THEN <<rec>>
    ELSE IF IndexValue(rec.k) < IndexValue(Head(sorted).k) THEN <<rec>> \o sorted
    ELSE <<Head(sorted)>> \o InsertIndexed(Tail(sorted), rec)

RECURSIVE IndexedPart(_)
IndexedPart(recs) ==
    IF recs = <<>> THEN <<>>
    ELSE IF IsArrayIndex(Head(recs).k)
         THEN InsertIndexed(IndexedPart(Tail(recs)), Head(recs))
         ELSE IndexedPart(Tail(recs))

NamedPart(recs) == SelectSeq(recs, LAMBDA r : ~IsArrayIndex(r.k))

\* recs: records with a key .k, in insertion order
OwnPropertyOrder(recs) == IndexedPart(recs) \o NamedPart(recs)

\* item[key]
GetProp(item, key) ==
    IF \E i \in 1..Len(item.e) : item.e[i].k = key
    THEN item.e[CHOOSE i \in 1..Len(item.e) : item.e[i].k = key].v
    ELSE Undefined


(***************************************************************************)
(* Number(string) and parseFloat(string): the StrDecimalLiteral grammar.   *)
(* The strings of the model hold no "Infinity" and no 0x/0o/0b prefix.     *)
(***************************************************************************)
\* index after the exponent part starting at m, or m when there is none
ExponentEnd(s, m) ==
    IF m <= Len(s) /\ s[m] \in {"e", "E"}
    THEN LET p == IF m + 1 <= Len(s) /\ s[m + 1] \in {"+", "-"} THEN m + 2 ELSE m + 1
             q == SkipDigits(s, p)
         IN  IF q > p THEN q ELSE m
    ELSE m

\* index after the longest unsigned decimal literal starting at j, or 0 when none
UnsignedDecimalEnd(s, j) ==
    LET k == SkipDigits(s, j)
    IN  IF k > j
        THEN IF k <= Len(s) /\ s[k] = "."
             THEN ExponentEnd(s, SkipDigits(s, k + 1))
             ELSE ExponentEnd(s, k)
        ELSE IF j <= Len(s) /\ s[j] = "." /\ SkipDigits(s, j + 1) > j + 1
             THEN ExponentEnd(s, SkipDigits(s, j + 1))
             ELSE 0

\* index after the longest signed decimal literal starting at i, or 0 when none
StrDecimalEnd(s, i) ==
    IF i <= Len(s) /\ s[i] \in {"+", "-"}
    THEN UnsignedDecimalEnd(s, i + 1)
    ELSE UnsignedDecimalEnd(s, i)

\* isNaN(Number(str)): the empty (or blank) string converts to 0
NumberIsNaN(str) ==
    LET tr == Trim(str)
    IN  tr # <<>> /\ StrDecimalEnd(tr, 1) # Len(tr) + 1

\* /^\d{4}-\d{2}-\d{2}/.test(str)
DateRegexTest(str) ==
    /\ Len(str) >= 10
    /\ \A i \in {1, 2, 3, 4, 6, 7, 9, 10} : IsDigit(str[i])
    /\ str[5] = "-"
    /\ str[8] = "-"

(***************************************************************************)
(* inferType (JsonUploader.tsx)                                            *)
(***************************************************************************)
inferType(value) ==
    IF value.t = "null" THEN "null"
    ELSE IF value.t = "array" THEN "array"
    ELSE IF TypeOf(value) = "number" THEN "number"
    ELSE IF TypeOf(value) = "boolean" THEN "boolean"
    ELSE IF TypeOf(value) = "string"
         THEN IF DateRegexTest(value.s) THEN "date"
              ELSE IF ~NumberIsNaN(value.s) /\ Trim(value.s) # <<>> THEN "number-string"
              ELSE "string"
    ELSE IF TypeOf(value) = "object" THEN "object"
    ELSE "unknown"

(***************************************************************************)
(* IEEE 754 double arithmetic of the coverage expression                   *)
(* Math.round((info.count / data.length) * 100). A positive double is      *)
(* [hi, mid, lo, x]: the 53 mantissa bits in three limbs, 18 bits in hi    *)
(* (its top bit set), 18 in mid and 17 in lo, and the exponent x; it       *)
(* stands for (hi * 2^35 + mid * 2^17 + lo) * 2^(x - 53). Division and     *)
(* multiplication are correctly rounded, to nearest, ties to even.         *)
(***************************************************************************)
RECURSIVE Pow2(_)
Pow2(k) == IF k = 0 THEN 1 ELSE 2 * Pow2(k - 1)

HiBits == 18

MidBits == 18

LoBits == 17

RECURSIVE BitLength(_)
BitLength(k) == IF k = 0 THEN 0 ELSE 1 + BitLength(k \div 2)

\* the mantissa limbs plus one unit in the last place
NextUp(hi, mid, lo, x) ==
    IF lo + 1 < Pow2(LoBits) THEN [hi |-> hi, mid |-> mid, lo |-> lo + 1, x |-> x]
    ELSE IF mid + 1 < Pow2(MidBits) THEN [hi |-> hi, mid |-> mid + 1, lo |-> 0, x |-> x]
    ELSE IF hi + 1 < Pow2(HiBits) THEN [hi |-> hi + 1, mid |-> 0, lo |-> 0, x |-> x]
    ELSE [hi |-> Pow2(HiBits - 1), mid |-> 0, lo |-> 0, x |-> x + 1]

\* round to nearest, ties to even: guard is the first dropped bit, sticky
\* tells that a nonzero bit follows it
RoundToDouble(hi, mid, lo, x, guard, sticky) ==
    IF guard = 1 /\ (sticky \/ (lo % 2) = 1)
    THEN NextUp(hi, mid, lo, x)
    ELSE [hi |-> hi, mid |-> mid, lo |-> lo, x |-> x]

RECURSIVE Normalise(_, _, _)
\* c / n = (c' / n') * 2^x with 1/2 <= c' / n' < 1
Normalise(c, n, x) ==
    IF c >= n THEN Normalise(c, 2 * n, x + 1)
    ELSE IF 2 * c < n THEN Normalise(2 * c, n, x - 1)
    ELSE [c |-> c, n |-> n, x |-> x]

\* the double c / n, for integers 1 <= c, n
FDiv(c, n) ==
    LET nm == Normalise(c, n, 0)
        t1 == nm.c * Pow2(HiBits)
        t2 == (t1 % nm.n) * Pow2(MidBits)
        t3 == (t2 % nm.n) * Pow2(LoBits)
        t4 == (t3 % nm.n) * 2
    IN  RoundToDouble(t1 \div nm.n, t2 \div nm.n, t3 \div nm.n, nm.x,
                      t4 \div nm.n, (t4 % nm.n) # 0)

\* the double d * k, for an integer 2 <= k < 2^12
FMul(d, k) ==
    LET p3   == d.lo * k
        p2   == d.mid * k + (p3 \div Pow2(LoBits))
        p1   == d.hi * k + (p2 \div Pow2(MidBits))
        l3   == p3 % Pow2(LoBits)
        l2   == p2 % Pow2(MidBits)
        \* the exact product is p1 * 2^35 + l2 * 2^17 + l3; drop its sh low bits
        sh   == BitLength(p1) - HiBits
        drop == l3 % Pow2(sh)
    IN  RoundToDouble(p1 \div Pow2(sh),
                      (l2 \div Pow2(sh)) + (p1 % Pow2(sh)) * Pow2(MidBits - sh),
                      (l3 \div Pow2(sh)) + (l2 % Pow2(sh)) * Pow2(LoBits - sh),
                      d.x + sh,
                      drop \div Pow2(sh - 1),
                      (drop % Pow2(sh - 1)) # 0)

\* Math.round(d), for d < 2^17: the nearest integer, a tie rounding up
MathRound(d) ==
    IF d.x < 0 THEN 0
    ELSE (d.hi \div Pow2(HiBits - d.x)) + ((d.hi \div Pow2(HiBits - d.x - 1)) % 2)

\* Math.round((count / length) * 100)
Coverage(count, length) == MathRound(FMul(FDiv(count, length), 100))


(***************************************************************************)
(* analyzeSchema (JsonUploader.tsx). fields is the plain object            *)
(* `fields`: its own properties in insertion order; a key it does not own  *)
(* may still be found on Object.prototype.                                 *)
(***************************************************************************)
\* names every plain object inherits from Object.prototype (two of them)
ObjectPrototypeKeys ==
    { <<"v","a","l","u","e","O","f">>,
      <<"c","o","n","s","t","r","u","c","t","o","r">> }

HasOwn(fields, key) == \E i \in 1..Len(fields) : fields[i].k = key

\* Set.prototype.add on a Set kept in insertion order
SetAdd(set, x) ==
    IF \E i \in 1..Len(set) : set[i] = x THEN set ELSE Append(set, x)

\* the callback of Object.entries(item).forEach; acc.thrown: a TypeError was raised
AddEntry(acc, ent) ==
    IF acc.thrown THEN acc
    ELSE IF HasOwn(acc.fields, ent.k)
    THEN [acc EXCEPT !.fields =
             [i \in 1..Len(acc.fields) |->
                 IF acc.fields[i].k = ent.k
                 THEN [k     |-> ent.k,
                       types |-> SetAdd(acc.fields[i].types, inferType(ent.v)),
                       count |-> acc.fields[i].count + 1]
                 ELSE acc.fields[i]]]
    ELSE IF ent.k \in ObjectPrototypeKeys
    \* fields[key] is the inherited member: truthy, and without a types Set
    THEN [acc EXCEPT !.thrown = TRUE]
    ELSE [acc EXCEPT !.fields =
             Append(acc.fields,
                    [k |-> ent.k, types |-> <<inferType(ent.v)>>, count |-> 1])]

RECURSIVE AddEntries(_, _, _)
AddEntries(acc, entries, i) ==
    \* a TypeError ends the iteration
    IF acc.thrown \/ i > Len(entries) THEN acc
    ELSE AddEntries(AddEntry(acc, entries[i]), entries, i + 1)

\* the callback of data.forEach
AddRow(acc, item) ==
    IF TypeOf(item) # "object" \/ item.t = "null" THEN acc
    ELSE AddEntries(acc, item.e, 1)

RECURSIVE AddRows(_, _, _)
AddRows(acc, rows, i) ==
    \* a TypeError ends the iteration
    IF acc.thrown \/ i > Len(rows) THEN acc
    ELSE AddRows(AddRow(acc, rows[i]), rows, i + 1)

SchemaFieldAlwaysFirstType(info, length) ==
    [name     |-> info.k,
     type     |-> info.types[1],
     types    |-> info.types,
     coverage |-> Coverage(info.count, length)]

\* one element of Object.entries(fields).map(...)
SchemaField(info, length) ==
    [name     |-> info.k,
     type     |-> IF Len(info.types) = 1 THEN info.types[1] ELSE "mixed",
     types    |-> info.types,
     coverage |-> Coverage(info.count, length)]

\* rows: the elements of the array `data`
analyzeSchema(rows) ==
    IF Len(rows) = 0 THEN [kind |-> "error", schema |-> <<>>, rowCount |-> 0]
    ELSE LET acc == AddRows([fields |-> <<>>, thrown |-> FALSE], rows, 1)
             ord == OwnPropertyOrder(acc.fields)
         IN  IF acc.thrown
             THEN [kind |-> "throw", schema |-> <<>>, rowCount |-> 0]
             ELSE [kind     |-> "ok",
                   schema   |-> [i \in 1..Len(ord) |-> SchemaField(ord[i], Len(rows))],
                   rowCount |-> Len(rows)]

(***************************************************************************)
(* JSON.parse (processJson): a JSON text is given by its rows with the     *)
(* members of each object in the order of the text; the parsed object      *)
(* holds them in own-property order.                                       *)
(***************************************************************************)
JsonParseValue(v) ==
    IF v.t = "object" THEN [v EXCEPT !.e = OwnPropertyOrder(v.e)] ELSE v

JsonParseRows(textRows) == [i \in 1..Len(textRows) |-> JsonParseValue(textRows[i])]

(***************************************************************************)
(* Schema inference as a function of the uploaded rows.                    *)
(***************************************************************************)
kA == <<"a">>

kB == <<"b">>

k1 == <<"1">>

kValueOf == <<"v","a","l","u","e","O","f">>

sDate == <<"2","0","2","4","-","0","1","-","0","5">>

s42 == <<"4","2">>

sPadded == <<" ","7"," ">>

sAbc == <<"a","b","c">>

sBlank == <<" ">>

\* the rows a JSON text of the model may hold, members in text order
RowUniverse ==
    { JObj(<<Entry(kA, JNum(1))>>),
      JObj(<<Entry(kB, JStr(sAbc)), Entry(kA, JStr(sDate))>>),
      JObj(<<Entry(kB, JNum(2)), Entry(k1, JStr(s42))>>),
      JObj(<<Entry(kA, JNull), Entry(kB, JBool(TRUE))>>),
      JObj(<<Entry(kA, JArr(<<>>)), Entry(kB, JObj(<<>>))>>),
      JObj(<<Entry(kA, JStr(sPadded)), Entry(kB, JStr(sBlank))>>),
      JObj(<<Entry(kValueOf, JNum(1))>>),
      JObj(<<>>),
      JNull,
      JNum(7) }

RECURSIVE SeqsUpTo(_, _)
\* the sequences over S of length 1..k
SeqsUpTo(S, k) ==
    IF k = 0 THEN {}
    ELSE LET shorter == SeqsUpTo(S, k - 1)
         IN  {<<x>> : x \in S} \cup shorter
               \cup {Append(q, x) : q \in shorter, x \in S}

\* n rows of which the first c hold the key "a"
TallRows(c, n) ==
    [i \in 1..n |-> IF i <= c THEN JObj(<<Entry(kA, JNum(1))>>) ELSE JObj(<<>>)]

SchemaInputs ==
    SeqsUpTo(RowUniverse, MaxRows)
      \cup {TallRows(cn[1], cn[2]) :
               cn \in {p \in (1..MaxTallRows) \X (1..MaxTallRows) : p[1] <= p[2]}}

AppIdle ==
    /\ data = None /\ schema = None /\ chartConfig = None /\ chartData = None
    /\ upSchema = None /\ rowCount = 0 /\ error = None /\ reading = None
    /\ messages = <<>> /\ isLoading = FALSE /\ pending = None

SchemaIdle == sData = <<>> /\ sResult = None

TransformIdle ==
    /\ tzWest = FALSE /\ tText = <<>> /\ tData = <<>> /\ tConfig = None
    /\ tOut = None /\ tGen = None

ResolveIdle == rText = <<>> /\ rSchema = <<>> /\ rConfig = None

InitSchema ==
    /\ sData \in SchemaInputs
    /\ sResult = None
    /\ AppIdle
    /\ TransformIdle
    /\ ResolveIdle

\* analyzeSchema applied to the parsed rows
Analyze ==
    /\ sResult = None
    /\ sResult' = Some(analyzeSchema(JsonParseRows(sData)))
    /\ UNCHANGED <<sData, appVars, transformVars, resolveVars>>

NextSchema == Analyze

SpecSchema == InitSchema /\ [][NextSchema]_vars

(***************************************************************************)
(* generateChartConfig (Chat.tsx). schemaFields: the schema the closure    *)
(* holds, a sequence of schema fields.                                     *)
(***************************************************************************)
\* !str for a string-or-null held as None / Some(string)
IsFalsy(opt) == opt = None \/ opt[1] = <<>>

\* schema.find(pred)?.name || rest
RECURSIVE FirstNameOfType(_, _, _)
FirstNameOfType(schemaFields, typeSet, i) ==
    IF i > Len(schemaFields) THEN None
    ELSE IF schemaFields[i].type \in typeSet THEN Some(schemaFields[i].name)
    ELSE FirstNameOfType(schemaFields, typeSet, i + 1)

\* schema[i]?.name
NameAt(schemaFields, i) ==
    IF i <= Len(schemaFields) THEN Some(schemaFields[i].name) ELSE None

\* a || b on strings-or-undefined
OrElse(a, b) == IF IsFalsy(a) THEN b ELSE a

RECURSIVE DetectFieldsLowerName(_, _, _, _)
DetectFieldsLowerName(schemaFields, msg, i, xy) ==
    IF i > Len(schemaFields) THEN xy
    ELSE LET f    == schemaFields[i]
             name == ToLowerCase(f.name)
             hit  == Includes(msg, name)
             x2   == IF hit /\ f.type \in {"date", "string"} /\ IsFalsy(xy.x)
                     THEN Some(name) ELSE xy.x
             y2   == IF hit /\ f.type \in {"number", "number-string"}
                     THEN Some(name) ELSE xy.y
         IN  DetectFieldsLowerName(schemaFields, msg, i + 1, [x |-> x2, y |-> y2])

RECURSIVE DetectFields(_, _, _, _)
\* schema.forEach: xy = [x, y], each None or Some(name)
DetectFields(schemaFields, msg, i, xy) ==
    IF i > Len(schemaFields) THEN xy
    ELSE LET f    == schemaFields[i]
             hit  == Includes(msg, ToLowerCase(f.name))
             x2   == IF hit /\ f.type \in {"date", "string"} /\ IsFalsy(xy.x)
                     THEN Some(f.name) ELSE xy.x
             y2   == IF hit /\ f.type \in {"number", "number-string"}
                     THEN Some(f.name) ELSE xy.y
         IN  DetectFields(schemaFields, msg, i + 1, [x |-> x2, y |-> y2])

\* the match of /(?:only|where|filter)\s+(\w+)\s*=\s*["']?(\w+)["']?/ at p
FilterKeywords == {<<"o","n","l","y">>, <<"w","h","e","r","e">>, <<"f","i","l","t","e","r">>}

FilterMatchAt(msg, p) ==
    IF \E kw \in FilterKeywords : StartsAt(msg, kw, p)
    THEN LET kw == CHOOSE w \in FilterKeywords : StartsAt(msg, w, p)
             f1 == SkipSpaces(msg, p + Len(kw))
             f2 == SkipWord(msg, f1)
             eq == SkipSpaces(msg, f2)
             q  == SkipSpaces(msg, eq + 1)
             v1 == IF q <= Len(msg) /\ msg[q] \in {"\"", "'"} /\ SkipWord(msg, q) = q
                   THEN q + 1 ELSE q
             v2 == SkipWord(msg, v1)
         IN  IF /\ f1 > p + Len(kw)
                /\ f2 > f1
                /\ eq <= Len(msg) /\ msg[eq] = "="
                /\ v2 > v1
             THEN Some([field |-> SubSeq(msg, f1, f2 - 1), value |-> SubSeq(msg, v1, v2 - 1)])
             ELSE None
    ELSE None

\* msg.match(...): the leftmost match
FilterMatch(msg) ==
    LET hits == {p \in 1..Len(msg) : FilterMatchAt(msg, p) # None}
    IN  IF hits = {} THEN None
        ELSE FilterMatchAt(msg, CHOOSE p \in hits : \A h \in hits : p <= h)

\* let chartType = 'line', then three independent overwrites
DetectChartType(msg) ==
    LET t0 == "line"
        t1 == IF Includes(msg, <<"b","a","r">>) THEN "bar" ELSE t0
        t2 == IF Includes(msg, <<"p","i","e">>) \/ Includes(msg, <<"d","o","n","u","t">>) THEN "pie" ELSE t1
        t3 == IF Includes(msg, <<"s","c","a","t","t","e","r">>) \/ Includes(msg, <<"p","o","i","n","t">>) THEN "scatter" ELSE t2
    IN  t3

DetectGroupByYearFirst(msg) ==
    LET g0 == None
        g1 == IF Includes(msg, <<"b","y"," ","y","e","a","r">>) THEN Some("year") ELSE g0
        g2 == IF Includes(msg, <<"b","y"," ","m","o","n","t","h">>) THEN Some("month") ELSE g1
        g3 == IF Includes(msg, <<"b","y"," ","w","e","e","k">>) THEN Some("week") ELSE g2
        g4 == IF Includes(msg, <<"b","y"," ","d","a","y">>) THEN Some("day") ELSE g3
    IN  g4

\* let groupBy = null, then four independent overwrites
DetectGroupBy(msg) ==
    LET g0 == None
        g1 == IF Includes(msg, <<"b","y"," ","m","o","n","t","h">>) THEN Some("month") ELSE g0
        g2 == IF Includes(msg, <<"b","y"," ","w","e","e","k">>) THEN Some("week") ELSE g1
        g3 == IF Includes(msg, <<"b","y"," ","d","a","y">>) THEN Some("day") ELSE g2
        g4 == IF Includes(msg, <<"b","y"," ","y","e","a","r">>) THEN Some("year") ELSE g3
    IN  g4

\* let aggregate = 'sum', then four independent overwrites
DetectAggregate(msg) ==
    LET a0 == "sum"
        a1 == IF Includes(msg, <<"a","v","e","r","a","g","e">>) \/ Includes(msg, <<"a","v","g">>) \/ Includes(msg, <<"m","e","a","n">>)
              THEN "average" ELSE a0
        a2 == IF Includes(msg, <<"c","o","u","n","t">>) THEN "count" ELSE a1
        a3 == IF Includes(msg, <<"m","a","x">>) THEN "max" ELSE a2
        a4 == IF Includes(msg, <<"m","i","n">>) THEN "min" ELSE a3
    IN  a4

\* let color = '#3b82f6', then five independent overwrites
DetectColor(msg) ==
    LET c0 == "#3b82f6"
        c1 == IF Includes(msg, <<"r","e","d">>) THEN "#ef4444" ELSE c0
        c2 == IF Includes(msg, <<"g","r","e","e","n">>) THEN "#22c55e" ELSE c1
        c3 == IF Includes(msg, <<"p","u","r","p","l","e">>) THEN "#8b5cf6" ELSE c2
        c4 == IF Includes(msg, <<"o","r","a","n","g","e">>) THEN "#f97316" ELSE c3
        c5 == IF Includes(msg, <<"p","i","n","k">>) THEN "#ec4899" ELSE c4
    IN  c5

\* the configuration returned for a schema that is not null
generateChartConfig(userMessage, schemaFields) ==
    LET msg  == ToLowerCase(userMessage)
        det  == DetectFields(schemaFields, msg, 1, [x |-> None, y |-> None])
        xFb  == OrElse(OrElse(OrElse(FirstNameOfType(schemaFields, {"date"}, 1),
                                     FirstNameOfType(schemaFields, {"string"}, 1)),
                              NameAt(schemaFields, 1)),
                       Some(<<>>))
        yFb  == OrElse(OrElse(FirstNameOfType(schemaFields, {"number", "number-string"}, 1),
                              NameAt(schemaFields, 2)),
                       Some(<<>>))
        xF   == IF IsFalsy(det.x) THEN xFb[1] ELSE det.x[1]
        yF   == IF IsFalsy(det.y) THEN yFb[1] ELSE det.y[1]
        type == DetectChartType(msg)
    IN  [chartType  |-> type,
         xField     |-> xF,
         yField     |-> yF,
         labelField |-> IF type = "pie" THEN Some(xF) ELSE None,
         groupBy    |-> DetectGroupBy(msg),
         filter     |-> FilterMatch(msg),
         aggregate  |-> DetectAggregate(msg),
         color      |-> DetectColor(msg),
         title      |-> (IF yF = <<>> THEN <<"V","a","l","u","e">> ELSE yF) \o <<" ","b","y"," ">>
                          \o (IF xF = <<>> THEN <<"C","a","t","e","g","o","r","y">> ELSE xF)]

(***************************************************************************)
(* The resolver as a function of the request and the schema.               *)
(***************************************************************************)
\* a schema field of the given name and type
Field(name, type) == [name |-> name, type |-> type, types |-> <<type>>, coverage |-> 100]

\* the schemas the resolver is given: none is empty
ResolveSchemas ==
    { <<Field(<<"d","a","t","e">>, "date"), Field(<<"r","e","v","e","n","u","e">>, "number")>>,
      <<Field(<<"r","e","g","i","o","n">>, "string"), Field(<<"C","a","t","e","g","o","r","y">>, "string"),
        Field(<<"r","e","v","e","n","u","e">>, "number-string"), Field(<<"c","o","s","t">>, "number")>>,
      <<Field(<<"c","o","s","t">>, "number"), Field(<<"r","e","g","i","o","n">>, "string"), Field(<<"d","a","t","e">>, "date")>>,
      <<Field(<<>>, "string"), Field(<<"r","e","g","i","o","n">>, "string"), Field(<<"r","e","v","e","n","u","e">>, "number")>>,
      <<Field(<<"c","o","s","t">>, "number"), Field(<<>>, "number-string")>>,
      <<Field(<<"f","l","a","g">>, "boolean"), Field(<<"t","a","g","s">>, "array")>>,
      <<Field(<<"f","l","a","g">>, "boolean")>> }

\* the words and phrases a request is made of
Phrases ==
    { <<"c","h","a","r","t">>, <<"B","a","r">>, <<"p","i","e">>, <<"d","o","n","u","t">>, <<"s","c","a","t","t","e","r">>, <<"p","o","i","n","t">>,
      <<"b","y"," ","m","o","n","t","h">>, <<"b","y"," ","w","e","e","k">>, <<"b","y"," ","d","a","y">>, <<"b","y"," ","y","e","a","r">>,
      <<"a","v","e","r","a","g","e">>, <<"a","v","g">>, <<"m","e","a","n">>, <<"c","o","u","n","t">>, <<"M","A","X">>, <<"m","i","n">>,
      <<"R","e","v","e","n","u","e">>, <<"c","o","s","t">>, <<"R","E","G","I","O","N">>, <<"c","a","t","e","g","o","r","y">>, <<"d","a","t","e">> }

RECURSIVE TextsOf(_)
\* the requests of 1..k phrases, separated by one space
TextsOf(k) ==
    IF k = 1 THEN Phrases
    ELSE TextsOf(k - 1) \cup {txt \o <<" ">> \o ph : txt \in TextsOf(k - 1), ph \in Phrases}

ResolveTexts == TextsOf(MaxPhrases) \cup {<<"l","i","n","e"," ","c","h","a","r","t"," ","o","f"," ","r","e","v","e","n","u","e"," ","o","v","e","r"," ","t","i","m","e">>}

InitResolve ==
    /\ rText \in ResolveTexts
    /\ rSchema \in ResolveSchemas
    /\ rConfig = None
    /\ AppIdle
    /\ SchemaIdle
    /\ TransformIdle

\* generateChartConfig(userMessage) under the schema of the closure
Resolve ==
    /\ rConfig = None
    /\ rConfig' = Some(generateChartConfig(rText, rSchema))
    /\ UNCHANGED <<rText, rSchema, appVars, schemaVars, transformVars>>

NextResolve == Resolve

SpecResolve == InitResolve /\ [][NextResolve]_vars

(***************************************************************************)
(* String(value), parseFloat(string) and the numbers of the series. A      *)
(* number of the series is the exact fraction [p, q] in lowest terms.      *)
(***************************************************************************)
RECURSIVE Gcd(_, _)
Gcd(a, b) == IF b = 0 THEN a ELSE Gcd(b, a % b)

Abs(a) == IF a < 0 THEN -a ELSE a

Rat(p, q) ==
    LET g == Gcd(Abs(p), Abs(q))
        s == IF q < 0 THEN -1 ELSE 1
    IN  [p |-> s * (p \div g), q |-> s * (q \div g)]

RatInt(k) == [p |-> k, q |-> 1]

RatAdd(a, b) == Rat(a.p * b.q + b.p * a.q, a.q * b.q)

RatLess(a, b) == a.p * b.q < b.p * a.q

RECURSIVE Pow10(_)
Pow10(k) == IF k = 0 THEN 1 ELSE 10 * Pow10(k - 1)

RECURSIVE NatToString(_)
NatToString(k) ==
    IF k < 10 THEN <<Digits[k + 1]>>
    ELSE Append(NatToString(k \div 10), Digits[(k % 10) + 1])

\* String(k) for an integer k
IntToString(k) == IF k < 0 THEN <<"-">> \o NatToString(-k) ELSE NatToString(k)

RECURSIVE StringOf(_)
\* String(value)
StringOf(v) ==
    CASE v.t = "string"    -> v.s
      [] v.t = "number"    -> IntToString(v.n)
      [] v.t = "boolean"   -> IF v.n = 1 THEN <<"t","r","u","e">> ELSE <<"f","a","l","s","e">>
      [] v.t = "null"      -> <<"n","u","l","l">>
      [] v.t = "undefined" -> <<"u","n","d","e","f","i","n","e","d">>
      [] v.t = "object"    -> <<"[","o","b","j","e","c","t"," ","O","b","j","e","c","t","]">>
      [] v.t = "array"     ->
            IF v.e = <<>> THEN <<>>
            ELSE LET first == IF v.e[1].v.t \in {"null", "undefined"} THEN <<>>
                              ELSE StringOf(v.e[1].v)
                 IN  IF Len(v.e) = 1 THEN first
                     ELSE first \o <<",">> \o StringOf(JArr(Tail(v.e)))

\* value || '' keeps the value only when it is truthy
IsFalsyValue(v) ==
    \/ v.t \in {"undefined", "null"}
    \/ v.t = "boolean" /\ v.n = 0
    \/ v.t = "number" /\ v.n = 0
    \/ v.t = "string" /\ v.s = <<>>

\* parseFloat(str) || 0: the longest decimal literal after leading white space
ParseFloatOrZero(str) ==
    LET i    == SkipSpaces(str, 1)
        stop == StrDecimalEnd(str, i)
    IN  IF stop = 0 THEN RatInt(0)
        ELSE LET neg  == str[i] = "-"
                 j    == IF str[i] \in {"+", "-"} THEN i + 1 ELSE i
                 k    == SkipDigits(str, j)
                 f    == IF k <= Len(str) /\ str[k] = "." THEN SkipDigits(str, k + 1) ELSE k
                 ints == SubSeq(str, j, k - 1)
                 frac == SubSeq(str, k + 1, f - 1)
                 eNeg == f < stop /\ str[f + 1] = "-"
                 eDig == IF f < stop
                         THEN SubSeq(str, IF str[f + 1] \in {"+", "-"} THEN f + 2 ELSE f + 1,
                                     stop - 1)
                         ELSE <<>>
                 ex   == DecimalValue(eDig, Len(eDig))
                 mant == DecimalValue(ints, Len(ints)) * Pow10(Len(frac))
                           + DecimalValue(frac, Len(frac))
                 sgn  == IF neg THEN -1 ELSE 1
             IN  IF eNeg THEN Rat(sgn * mant, Pow10(Len(frac)) * Pow10(ex))
                 ELSE Rat(sgn * mant * Pow10(ex), Pow10(Len(frac)))

(***************************************************************************)
(* new Date(...) and the local-time getters. A date is [y, m, d], the      *)
(* calendar day in UTC; NaD is the Invalid Date. A date-only ISO string is *)
(* midnight UTC. In an environment west of Greenwich (tzWest) the local    *)
(* calendar day of midnight UTC is the day before; elsewhere it is the     *)
(* same day. Only the YYYY-MM-DD form is taken to parse: the model's       *)
(* strings hold no other form an engine's legacy parser accepts.           *)
(***************************************************************************)
NaD == [y |-> 0, m |-> 0, d |-> 0]

IsLeap(y) == (y % 4 = 0 /\ y % 100 # 0) \/ y % 400 = 0

DaysInMonth(y, m) ==
    IF m = 2 THEN (IF IsLeap(y) THEN 29 ELSE 28)
    ELSE IF m \in {4, 6, 9, 11} THEN 30 ELSE 31

DateParse(str) ==
    IF Len(str) = 10 /\ DateRegexTest(str)
    THEN LET y == DecimalValue(SubSeq(str, 1, 4), 4)
             m == DecimalValue(SubSeq(str, 6, 7), 2)
             d == DecimalValue(SubSeq(str, 9, 10), 2)
         IN  IF m \in 1..12 /\ d >= 1 /\ d <= DaysInMonth(y, m)
             THEN [y |-> y, m |-> m, d |-> d]
             ELSE NaD
    ELSE NaD

PrevDay(date) ==
    IF date.d > 1 THEN [date EXCEPT !.d = @ - 1]
    ELSE IF date.m > 1
         THEN [y |-> date.y, m |-> date.m - 1, d |-> DaysInMonth(date.y, date.m - 1)]
         ELSE [y |-> date.y - 1, m |-> 12, d |-> 31]

\* the calendar day the local-time getters read
LocalDay(date, west) == IF west THEN PrevDay(date) ELSE date

Pad2(k) == IF k < 10 THEN <<"0">> \o NatToString(k) ELSE NatToString(k)

CeilDiv7(d) == (d + 6) \div 7

\* `<<"d","a","t","e",".","g","e","t","F","u","l","l","Y","e","a","r","(",")">>-<<"S","t","r","i","n","g","(","d","a","t","e",".","g","e","t","M","o","n","t","h","(",")"," ","+"," ","1",")",".","p","a","d","S","t","a","r","t","(","2",","," ","'","0","'",")">>`
MonthKey(date, west) ==
    LET l == LocalDay(date, west) IN IntToString(l.y) \o <<"-">> \o Pad2(l.m)

\* String(date.getFullYear())
YearKey(date, west) == IntToString(LocalDay(date, west).y)

\* `<<"d","a","t","e",".","g","e","t","F","u","l","l","Y","e","a","r","(",")">>-W<<"M","a","t","h",".","c","e","i","l","(","d","a","t","e",".","g","e","t","D","a","t","e","(",")"," ","/"," ","7",")">>`
WeekKey(date, west) ==
    LET l == LocalDay(date, west)
    IN  IntToString(l.y) \o <<"-", "W">> \o NatToString(CeilDiv7(l.d))

(***************************************************************************)
(* String.prototype.localeCompare, default (root) collation, over the      *)
(* characters of the model: white space and punctuation before digits      *)
(* before letters; letters compare without case first, and lower case      *)
(* precedes upper case when nothing else differs.                          *)
(***************************************************************************)
Punctuation == <<" ", "_", "-", ",", ".", "'", "\"", "[", "]", "+", "=">>

CollationRank(c) ==
    IF \E i \in 1..Len(Punctuation) : Punctuation[i] = c
    THEN CHOOSE i \in 1..Len(Punctuation) : Punctuation[i] = c
    ELSE IF IsDigit(c) THEN 20 + DigitVal(c)
    ELSE 40 + (CHOOSE i \in 1..26 : LowerCase[i] = LowerChar(c))

RECURSIVE ComparePrimary(_, _, _)
ComparePrimary(a, b, i) ==
    IF i > Len(a) /\ i > Len(b) THEN 0
    ELSE IF i > Len(a) THEN -1
    ELSE IF i > Len(b) THEN 1
    ELSE IF CollationRank(a[i]) < CollationRank(b[i]) THEN -1
    ELSE IF CollationRank(a[i]) > CollationRank(b[i]) THEN 1
    ELSE ComparePrimary(a, b, i + 1)

RECURSIVE CompareCase(_, _, _)
CompareCase(a, b, i) ==
    IF i > Len(a) THEN 0
    ELSE IF a[i] = b[i] THEN CompareCase(a, b, i + 1)
    ELSE IF IsLower(a[i]) THEN -1 ELSE 1

LocaleCompare(a, b) ==
    IF ComparePrimary(a, b, 1) # 0 THEN ComparePrimary(a, b, 1)
    ELSE CompareCase(a, b, 1)

(***************************************************************************)
(* transformData (ChartPreview.tsx)                                        *)
(***************************************************************************)
Series(labels, values) == [kind |-> "ok", labels |-> labels, values |-> values]

\* a TypeError left the function
Raised == [kind |-> "throw", labels |-> <<>>, values |-> <<>>]

\* reading a property of null raises a TypeError
CanRead(item) == item.t \notin {"null", "undefined"}

\* the callback of processed.filter
FilterKeeps(item, filter) ==
    ToLowerCase(StringOf(GetProp(item, filter.field))) = ToLowerCase(filter.value)

ApplyFilter(rows, config) ==
    IF config.filter = None THEN rows
    ELSE SelectSeq(rows, LAMBDA item : FilterKeeps(item, config.filter[1]))

\* parseFloat(String(item[yField])) || 0
YValue(item, config) == ParseFloatOrZero(StringOf(GetProp(item, config.yField)))

\* String(item[xField] || '')
XLabel(item, config) ==
    IF IsFalsyValue(GetProp(item, config.xField)) THEN <<>>
    ELSE StringOf(GetProp(item, config.xField))

\* the bucket key of a row
GroupKey(item, config, west) ==
    LET key  == XLabel(item, config)
        date == DateParse(key)
    IN  IF key = <<>> \/ config.groupBy[1] \notin {"month", "year", "week"} \/ date = NaD
        THEN key
        ELSE IF config.groupBy[1] = "month" THEN MonthKey(date, west)
        ELSE IF config.groupBy[1] = "year" THEN YearKey(date, west)
        ELSE WeekKey(date, west)

\* if (!groups[key]) groups[key] = []; groups[key].push(item): groups is a
\* plain object, so a key it does not own may be found on Object.prototype,
\* and that member has no push
AddToGroup(acc, key, item) ==
    IF HasOwn(acc.groups, key)
    THEN [acc EXCEPT !.groups =
             [i \in 1..Len(acc.groups) |->
                 IF acc.groups[i].k = key
                 THEN [k |-> key, items |-> Append(acc.groups[i].items, item)]
                 ELSE acc.groups[i]]]
    ELSE IF key \in ObjectPrototypeKeys
    THEN [acc EXCEPT !.thrown = TRUE]
    ELSE [acc EXCEPT !.groups = Append(acc.groups, [k |-> key, items |-> <<item>>])]

RECURSIVE RatSum(_, _)
\* values.reduce((a, b) => a + b, 0)
RatSum(values, i) == IF i = 0 THEN RatInt(0) ELSE RatAdd(RatSum(values, i - 1), values[i])

RatMax(values) ==
    values[CHOOSE i \in 1..Len(values) : \A j \in 1..Len(values) : ~RatLess(values[i], values[j])]

RatMin(values) ==
    values[CHOOSE i \in 1..Len(values) : \A j \in 1..Len(values) : ~RatLess(values[j], values[i])]

AggregateSumOnly(values, aggregate) == RatSum(values, Len(values))

\* the switch on config.aggregate, over a bucket's values
Aggregate(values, aggregate) ==
    LET sum == RatSum(values, Len(values))
    IN  CASE aggregate = "average" -> Rat(sum.p, sum.q * Len(values))
          [] aggregate = "count"   -> RatInt(Len(values))
          [] aggregate = "max"     -> RatMax(values)
          [] aggregate = "min"     -> RatMin(values)
          [] OTHER                 -> sum

RECURSIVE InsertByLabel(_, _)
\* rec placed after every element that does not compare greater (a stable sort)
InsertByLabel(sorted, rec) ==
    IF sorted = <<>> THEN <<rec>>
    ELSE IF LocaleCompare(rec.label, Head(sorted).label) < 0 THEN <<rec>> \o sorted
    ELSE <<Head(sorted)>> \o InsertByLabel(Tail(sorted), rec)

RECURSIVE SortByLabel(_, _)
\* aggregated.sort((a, b) => a.label.localeCompare(b.label))
SortByLabel(recs, i) ==
    IF i = 0 THEN <<>> ELSE InsertByLabel(SortByLabel(recs, i - 1), recs[i])

\* the series of the aggregated, sorted groups
GroupedSeries(groups, config) ==
    LET ord        == OwnPropertyOrder(groups)
        aggregated == [i \in 1..Len(ord) |->
                          [label |-> ord[i].k,
                           value |-> Aggregate([j \in 1..Len(ord[i].items) |->
                                                    YValue(ord[i].items[j], config)],
                                               config.aggregate)]]
        sorted     == SortByLabel(aggregated, Len(aggregated))
    IN  Series([i \in 1..Len(sorted) |-> sorted[i].label],
               [i \in 1..Len(sorted) |-> sorted[i].value])

RECURSIVE GroupRows(_, _, _, _, _)
\* processed.forEach(item => ...): a TypeError ends the iteration
GroupRows(acc, rows, config, west, i) ==
    IF acc.thrown \/ i > Len(rows) THEN acc
    ELSE IF ~CanRead(rows[i]) THEN [acc EXCEPT !.thrown = TRUE]
    ELSE GroupRows(AddToGroup(acc, GroupKey(rows[i], config, west), rows[i]),
                   rows, config, west, i + 1)

\* transformData(data, config), data and config not null
transformData(rows, config, west) ==
    IF config.filter # None /\ \E i \in 1..Len(rows) : ~CanRead(rows[i]) THEN Raised
    ELSE LET processed == ApplyFilter(rows, config)
         IN  IF config.groupBy # None /\ config.xField # <<>>
             THEN LET acc == GroupRows([groups |-> <<>>, thrown |-> FALSE],
                                       processed, config, west, 1)
                  IN  IF acc.thrown THEN Raised ELSE GroupedSeries(acc.groups, config)
             ELSE IF \E i \in 1..Len(processed) : ~CanRead(processed[i]) THEN Raised
             ELSE Series([i \in 1..Len(processed) |-> XLabel(processed[i], config)],
                         [i \in 1..Len(processed) |-> YValue(processed[i], config)])

(***************************************************************************)
(* The transformation the text emitted by generateComponentCode performs   *)
(* (CodeGenerator, in Chat.tsx), on the data the component is given.       *)
(***************************************************************************)
\* the emitted text does not parse: `d.name` needs an identifier name
NotCompiled == [kind |-> "syntax", labels |-> <<>>, values |-> <<>>]

\* the component returns <div>No data available</div>
NoData == [kind |-> "nodata", labels |-> <<>>, values |-> <<>>]

IsIdentifierName(name) ==
    /\ name # <<>>
    /\ ~IsDigit(name[1])
    /\ \A i \in 1..Len(name) : IsWordChar(name[i]) \/ name[i] = "$"

sNaN == <<"N","a","N">>

\* new Date(value), for the values of the model: a number is that many
\* milliseconds after the epoch, less than a day either way
NewDate(v) ==
    CASE v.t = "string" -> DateParse(v.s)
      [] v.t \in {"null", "boolean"} -> [y |-> 1970, m |-> 1, d |-> 1]
      [] v.t = "number" ->
            IF v.n >= 0 THEN [y |-> 1970, m |-> 1, d |-> 1] ELSE [y |-> 1969, m |-> 12, d |-> 31]
      [] OTHER -> NaD

\* the emitted keyExtraction, applied to a row
GeneratedKey(item, config, west) ==
    LET date == NewDate(GetProp(item, config.xField))
    IN  CASE config.groupBy[1] = "month" ->
                IF date = NaD THEN sNaN \o <<"-">> \o sNaN ELSE MonthKey(date, west)
          [] config.groupBy[1] = "year" ->
                IF date = NaD THEN sNaN ELSE YearKey(date, west)
          [] config.groupBy[1] = "week" ->
                IF date = NaD THEN sNaN \o <<"-", "W">> \o sNaN ELSE WeekKey(date, west)
          [] OTHER -> StringOf(GetProp(item, config.xField))

RECURSIVE GeneratedGroupRows(_, _, _, _, _)
\* filtered.forEach(d => ...)
GeneratedGroupRows(acc, rows, config, west, i) ==
    IF acc.thrown \/ i > Len(rows) THEN acc
    ELSE IF ~CanRead(rows[i]) THEN [acc EXCEPT !.thrown = TRUE]
    ELSE GeneratedGroupRows(AddToGroup(acc, GeneratedKey(rows[i], config, west), rows[i]),
                            rows, config, west, i + 1)

\* the labels and values the emitted component computes from its data
GeneratedTransform(rows, config, west) ==
    IF \/ ~IsIdentifierName(config.xField)
       \/ ~IsIdentifierName(config.yField)
       \/ config.filter # None /\ ~IsIdentifierName(config.filter[1].field)
    THEN NotCompiled
    ELSE IF Len(rows) = 0 THEN NoData
    ELSE IF config.filter # None /\ \E i \in 1..Len(rows) : ~CanRead(rows[i]) THEN Raised
    ELSE LET filtered == ApplyFilter(rows, config)
         IN  IF config.groupBy # None
             THEN LET acc == GeneratedGroupRows([groups |-> <<>>, thrown |-> FALSE],
                                                filtered, config, west, 1)
                  IN  IF acc.thrown THEN Raised ELSE GroupedSeries(acc.groups, config)
             ELSE IF \E i \in 1..Len(filtered) : ~CanRead(filtered[i]) THEN Raised
             ELSE Series([i \in 1..Len(filtered) |-> StringOf(GetProp(filtered[i], config.xField))],
                         [i \in 1..Len(filtered) |-> YValue(filtered[i], config)])

(***************************************************************************)
(* The transformer as a function of an uploaded dataset and a resolved     *)
(* configuration.                                                          *)
(***************************************************************************)
kDate == <<"d","a","t","e">>

kRevenue == <<"r","e","v","e","n","u","e">>

kRegion == <<"r","e","g","i","o","n">>

\* the datasets, as rows of a JSON text
DataMonths ==
    << JObj(<<Entry(kDate, JStr(<<"2","0","2","4","-","0","1","-","0","1">>)), Entry(kRevenue, JNum(10))>>),
       JObj(<<Entry(kDate, JStr(<<"2","0","2","4","-","0","1","-","1","5">>)), Entry(kRevenue, JNum(20))>>),
       JObj(<<Entry(kDate, JStr(<<"2","0","2","4","-","0","2","-","0","1">>)), Entry(kRevenue, JNum(5))>>) >>

DataRegions ==
    << JObj(<<Entry(kRegion, JStr(<<"w","e","s","t">>)), Entry(kRevenue, JStr(<<"7",".","5">>))>>),
       JObj(<<Entry(kRegion, JStr(<<"E","a","s","t">>)), Entry(kRevenue, JNum(3))>>),
       JObj(<<Entry(kRegion, JStr(<<"e","a","s","t">>)), Entry(kRevenue, JStr(<<"a","b","c">>))>>),
       JObj(<<Entry(kRevenue, JNum(4))>>) >>

DataFalsy ==
    << JObj(<<Entry(kDate, JStr(<<"2","0","2","3","-","1","2","-","3","1">>)), Entry(kRevenue, JNum(2))>>),
       JObj(<<Entry(kDate, JNum(0)), Entry(kRevenue, JNum(1))>>),
       JObj(<<Entry(kDate, JNull), Entry(kRevenue, JNum(6))>>),
       JObj(<<Entry(kDate, JStr(<<"2","0","2","3","-","1","3","-","4","5">>)), Entry(kRevenue, JNum(8))>>) >>

DataNullRow ==
    << JObj(<<Entry(kDate, JStr(<<"2","0","2","4","-","0","3","-","0","9">>)), Entry(kRevenue, JNum(1))>>), JNull >>

DataProtoLabel ==
    << JObj(<<Entry(kRegion, JStr(<<"c","o","n","s","t","r","u","c","t","o","r">>)), Entry(kRevenue, JNum(1))>>),
       JObj(<<Entry(kRegion, JStr(<<"n","o","r","t","h">>)), Entry(kRevenue, JNum(2))>>) >>

DataNumbers == << JNum(7), JNum(8) >>

DataCapital ==
    << JObj(<<Entry(<<"R","e","g","i","o","n">>, JStr(<<"e","a","s","t">>)), Entry(<<"S","a","l","e","s">>, JNum(1))>>),
       JObj(<<Entry(<<"R","e","g","i","o","n">>, JStr(<<"W","e","s","t">>)), Entry(<<"S","a","l","e","s">>, JNum(2))>>),
       JObj(<<Entry(<<"R","e","g","i","o","n">>, JStr(<<"E","A","S","T">>)), Entry(<<"S","a","l","e","s">>, JStr(<<"3",".","5","k","g">>))>>) >>

TransformDatasets ==
    {DataMonths, DataRegions, DataFalsy, DataNullRow, DataProtoLabel, DataNumbers, DataCapital}

\* the parts a request is composed of: the aggregation, the grouping, the filter
AggregatePhrases == {<<"r","e","v","e","n","u","e">>, <<"a","v","e","r","a","g","e"," ","r","e","v","e","n","u","e">>, <<"c","o","u","n","t"," ","r","e","v","e","n","u","e">>, <<"m","a","x"," ","r","e","v","e","n","u","e">>, <<"m","i","n"," ","r","e","v","e","n","u","e">>}

GroupPhrases == {<<>>, <<" ","b","y"," ","m","o","n","t","h">>, <<" ","b","y"," ","y","e","a","r">>, <<" ","b","y"," ","w","e","e","k">>, <<" ","b","y"," ","d","a","y">>}

FilterPhrases ==
    {<<>>, <<" ","w","h","e","r","e"," ","r","e","g","i","o","n"," ","="," ","e","a","s","t">>, <<" ","o","n","l","y"," ","R","e","g","i","o","n"," ","="," ","'","E","a","s","t","'">>, <<" ","f","i","l","t","e","r"," ","r","e","g","i","o","n","=","u","n","d","e","f","i","n","e","d">>}

ComposedTexts ==
    {a \o g \o f : a \in AggregatePhrases, g \in GroupPhrases, f \in FilterPhrases}

\* the chat requests
TransformTexts ==
    { <<"b","a","r"," ","c","h","a","r","t"," ","o","f"," ","r","e","v","e","n","u","e"," ","b","y"," ","m","o","n","t","h">>,
      <<"l","i","n","e"," ","c","h","a","r","t"," ","o","f"," ","r","e","v","e","n","u","e"," ","o","v","e","r"," ","t","i","m","e">>,
      <<"a","v","e","r","a","g","e"," ","b","y"," ","y","e","a","r">>,
      <<"m","a","x"," ","r","e","v","e","n","u","e"," ","b","y"," ","w","e","e","k">>,
      <<"c","o","u","n","t"," ","b","y"," ","d","a","y"," ","w","h","e","r","e"," ","r","e","g","i","o","n"," ","="," ","e","a","s","t">>,
      <<"m","i","n"," ","r","e","v","e","n","u","e"," ","o","n","l","y"," ","r","e","g","i","o","n"," ","="," ","'","e","a","s","t","'">>,
      <<"p","i","e"," ","b","y"," ","m","o","n","t","h"," ","f","i","l","t","e","r"," ","r","e","g","i","o","n","=","e","a","s","t">> }
      \cup ComposedTexts

\* analyzeSchema's result for each dataset: the uploader accepts those it
\* returns a schema for
DatasetAnalysis == [d \in TransformDatasets |-> analyzeSchema(JsonParseRows(d))]

InitTransform ==
    /\ tzWest \in BOOLEAN
    /\ tText \in TransformTexts
    /\ tData \in {d \in TransformDatasets : DatasetAnalysis[d].kind = "ok"}
    /\ tConfig = Some(generateChartConfig(tText, DatasetAnalysis[tData].schema))
    /\ tOut = None
    /\ tGen = None
    /\ AppIdle
    /\ SchemaIdle
    /\ ResolveIdle

\* the preview and the emitted component applied to the same data
Transform ==
    /\ tOut = None
    /\ tOut' = Some(transformData(JsonParseRows(tData), tConfig[1], tzWest))
    /\ tGen' = Some(GeneratedTransform(JsonParseRows(tData), tConfig[1], tzWest))
    /\ UNCHANGED <<tzWest, tText, tData, tConfig, appVars, schemaVars, resolveVars>>

NextTransform == Transform

SpecTransform == InitTransform /\ [][NextTransform]_vars

(***************************************************************************)
(* The session: App, JsonUploader and Chat.                                *)
(***************************************************************************)
\* a top-level JSON array of the rows
JsonArray(rows) == JArr([i \in 1..Len(rows) |-> Entry(NatToString(i - 1), rows[i])])

Elements(arr) == [i \in 1..Len(arr.e) |-> arr.e[i].v]

\* a text that is not JSON, and the text of a JSON value
Malformed == [ok |-> FALSE, top |-> JNull]

TextOf(value) == [ok |-> TRUE, top |-> value]

\* the texts the user pastes or drops
UploadTexts ==
    { Malformed,
      TextOf(JsonArray(<<>>)),
      TextOf(JNum(7)),
      TextOf(JsonArray(<<JNull, JNum(7)>>)),
      TextOf(JsonArray(DataMonths)),
      TextOf(JsonArray(DataRegions)),
      TextOf(JsonArray(<<JObj(<<Entry(kValueOf, JNum(1))>>)>>)) }

\* the requests the user types
ChatTexts ==
    { <<"b","a","r"," ","c","h","a","r","t"," ","o","f"," ","r","e","v","e","n","u","e"," ","b","y"," ","m","o","n","t","h">>,
      <<"m","i","n"," ","r","e","v","e","n","u","e"," ","o","n","l","y"," ","r","e","g","i","o","n"," ","="," ","'","e","a","s","t","'">> }

MsgInvalidJson == "Invalid JSON: Unexpected token"

MsgTypeError == "Invalid JSON: Cannot read properties of undefined (reading 'add')"

MsgNotArray == "Data must be a non-empty array of objects"

\* const data = Array.isArray(parsed) ? parsed : [parsed]
RowsOfText(text) ==
    IF text.top.t = "array" THEN JsonParseRows(Elements(text.top))
    ELSE <<JsonParseValue(text.top)>>

Greeting(schemaFields) ==
    [role |-> "assistant", kind |-> "greeting",
     body |-> [i \in 1..Len(schemaFields) |-> schemaFields[i].name]]

UserMessage(text) == [role |-> "user", kind |-> "user", body |-> text]

Summary(config) == [role |-> "assistant", kind |-> "summary", body |-> <<config>>]

Fallback == [role |-> "assistant", kind |-> "fallback", body |-> <<>>]

\* ChartPreview's useMemo raised while rendering: no error boundary catches
\* it, and React unmounts the application
Crashed == chartData # None /\ chartData[1].kind = "throw"

\* useMemo(() => { if (!data || !config) return null; return transformData(data, config) })
ChartDataOf(d, c) ==
    IF d = None \/ c = None THEN None ELSE Some(transformData(d[1], c[1], tzWest))

\* analyzeSchema's result for the rows of each JSON text
Analysis == [text \in {u \in UploadTexts : u.ok} |-> analyzeSchema(RowsOfText(text))]

CatchErrorResets(message) ==
    /\ error' = Some(message)
    /\ upSchema' = None
    /\ rowCount' = 0
    /\ UNCHANGED <<data, schema, chartConfig, chartData, messages>>

\* processJson's catch clause
CatchError(message) ==
    /\ error' = Some(message)
    /\ UNCHANGED <<data, schema, chartConfig, chartData, upSchema, rowCount, messages>>

\* processJson(text), with App.handleDataLoaded and the greeting effect of Chat
processJson(text) ==
    IF ~text.ok THEN CatchError(MsgInvalidJson)
    ELSE LET rows   == RowsOfText(text)
             result == Analysis[text]
         IN  IF result.kind = "throw" THEN CatchError(MsgTypeError)
             ELSE IF result.kind = "error"
             THEN /\ error' = Some(MsgNotArray)
                  /\ UNCHANGED <<data, schema, chartConfig, chartData, upSchema, rowCount,
                                 messages>>
             ELSE /\ upSchema' = Some(result.schema)
                  /\ rowCount' = result.rowCount
                  /\ error' = None
                  /\ data' = Some(rows)
                  /\ schema' = Some(result.schema)
                  /\ chartConfig' = None
                  /\ chartData' = ChartDataOf(Some(rows), None)
                  /\ messages' = IF Len(result.schema) > 0 /\ Len(messages) = 0
                                 THEN <<Greeting(result.schema)>>
                                 ELSE messages

\* the drop zone and the text area are rendered only while the uploader
\* holds no schema
HandlePaste(text) ==
    /\ ~Crashed
    /\ upSchema = None
    /\ processJson(text)
    /\ UNCHANGED <<reading, isLoading, pending, schemaVars, transformVars,
                   resolveVars>>

\* handleDrop / handleFileSelect: reader.readAsText(file)
HandleFile(text) ==
    /\ ~Crashed
    /\ upSchema = None
    /\ reading = None
    /\ reading' = Some(text)
    /\ UNCHANGED <<data, schema, chartConfig, chartData, upSchema, rowCount, error,
                   messages, isLoading, pending, schemaVars, transformVars,
                   resolveVars>>

\* reader.onload
ReaderOnload ==
    /\ ~Crashed
    /\ reading # None
    /\ reading' = None
    /\ processJson(reading[1])
    /\ UNCHANGED <<isLoading, pending, schemaVars, transformVars,
                   resolveVars>>

HandleReset ==
    /\ ~Crashed
    /\ upSchema # None
    /\ upSchema' = None
    /\ error' = None
    /\ rowCount' = 0
    /\ UNCHANGED <<data, schema, chartConfig, chartData, reading, messages, isLoading,
                   pending, schemaVars, transformVars,
                   resolveVars>>

HandleSubmitReplaces(text) ==
    /\ ~Crashed
    /\ Trim(text) # <<>>
    /\ ~isLoading
    /\ data # None
    /\ Len(messages) < MaxMessages
    /\ messages' = <<UserMessage(Trim(text))>>
    /\ isLoading' = TRUE
    /\ pending' = Some([msg |-> Trim(text), schema |-> schema])
    /\ UNCHANGED <<data, schema, chartConfig, chartData, upSchema, rowCount, error,
                   reading, schemaVars, transformVars,
                   resolveVars>>

\* handleSubmit up to its await; the continuation keeps the closure's schema
HandleSubmit(text) ==
    /\ ~Crashed
    /\ Trim(text) # <<>>
    /\ ~isLoading
    /\ data # None
    /\ Len(messages) < MaxMessages
    /\ messages' = Append(messages, UserMessage(Trim(text)))
    /\ isLoading' = TRUE
    /\ pending' = Some([msg |-> Trim(text), schema |-> schema])
    /\ UNCHANGED <<data, schema, chartConfig, chartData, upSchema, rowCount, error,
                   reading, schemaVars, transformVars,
                   resolveVars>>

\* handleSubmit after the 800 ms timer
HandleReply ==
    /\ ~Crashed
    /\ pending # None
    /\ IF pending[1].schema = None
       THEN /\ messages' = Append(messages, Fallback)
            /\ UNCHANGED <<chartConfig, chartData>>
       ELSE LET config == generateChartConfig(pending[1].msg, pending[1].schema[1])
            IN  /\ messages' = Append(messages, Summary(config))
                /\ chartConfig' = Some(config)
                /\ chartData' = ChartDataOf(data, Some(config))
    /\ isLoading' = FALSE
    /\ pending' = None
    /\ UNCHANGED <<data, schema, upSchema, rowCount, error, reading,
                   schemaVars, transformVars,
                   resolveVars>>

Init == AppIdle /\ SchemaIdle /\ TransformIdle /\ ResolveIdle

Next ==
    \/ \E text \in UploadTexts : HandlePaste(text)
    \/ \E text \in UploadTexts : HandleFile(text)
    \/ ReaderOnload
    \/ HandleReset
    \/ \E text \in ChatTexts : HandleSubmit(text)
    \/ HandleReply

Spec == Init /\ [][Next]_vars

\* the continuation of a pending submission runs: the step that ends the wait
TimerFires == pending # None /\ pending' = None

\* the 800 ms timer of a pending submission always fires
SpecLive == Spec /\ WF_pending(TimerFires)

(***************************************************************************)
(*                        Properties of the claims                         *)
(***************************************************************************)

\* the parsed rows analyzeSchema was given, and its result
sRows == JsonParseRows(sData)

sOk == sResult # None /\ sResult[1].kind = "ok"

sSchema == sResult[1].schema

IsObjectRow(row) == row.t = "object"

IsFlatObject(row) ==
    /\ row.t = "object"
    /\ \A j \in 1..Len(row.e) : row.e[j].v.t \notin {"object", "array"}

KeysOf(rows) ==
    UNION {{rows[i].e[j].k : j \in 1..Len(rows[i].e)} :
              i \in {r \in 1..Len(rows) : IsObjectRow(rows[r])}}

\* the values the key has in the object rows
ValuesOf(rows, key) ==
    UNION {{rows[i].e[j].v : j \in {e \in 1..Len(rows[i].e) : rows[i].e[e].k = key}} :
              i \in {r \in 1..Len(rows) : IsObjectRow(rows[r])}}

RowsContaining(rows, key) ==
    {i \in 1..Len(rows) :
        IsObjectRow(rows[i]) /\ \E j \in 1..Len(rows[i].e) : rows[i].e[j].k = key}

\* C7: for every non-empty array of flat objects, whatever the keys are,
\* schema inference succeeds and outputs exactly one schema field for each
\* distinct key of the rows, and no field for any other key.
C7_OneFieldPerKey ==
    (sResult # None /\ Len(sRows) > 0 /\ \A i \in 1..Len(sRows) : IsFlatObject(sRows[i]))
    => /\ sOk
       /\ \A key \in KeysOf(sRows) :
              Cardinality({i \in 1..Len(sSchema) : sSchema[i].name = key}) = 1
       /\ \A i \in 1..Len(sSchema) : sSchema[i].name \in KeysOf(sRows)

RECURSIVE FirstSeen(_, _, _, _)
\* the distinct keys in the order the rows' entries are visited
FirstSeen(rows, i, j, seen) ==
    IF i > Len(rows) THEN seen
    ELSE IF ~IsObjectRow(rows[i]) \/ j > Len(rows[i].e) THEN FirstSeen(rows, i + 1, 1, seen)
    ELSE FirstSeen(rows, i, j + 1, SetAdd(seen, rows[i].e[j].k))

\* C8: the schema fields are output in first-seen order of their keys, for
\* all key strings, keys made only of digits included.
C8_FirstSeenOrder ==
    sOk => [i \in 1..Len(sSchema) |-> sSchema[i].name] = FirstSeen(sRows, 1, 1, <<>>)

\* the classification the claim states, first matching rule first
ClaimLeadingDate(str) ==
    /\ Len(str) >= 10
    /\ \A i \in 1..10 : IF i \in {5, 8} THEN str[i] = "-" ELSE IsDigit(str[i])

ClaimNumeric(str) ==
    LET tr   == Trim(str)
        body == IF tr # <<>> /\ tr[1] \in {"+", "-"} THEN Tail(tr) ELSE tr
    IN  /\ \E i \in 1..Len(body) : IsDigit(body[i])
        /\ \A i \in 1..Len(body) : IsDigit(body[i]) \/ body[i] = "."
        /\ Cardinality({i \in 1..Len(body) : body[i] = "."}) <= 1

ClaimType(v) ==
    CASE v.t = "null" -> "null"
      [] v.t = "array" -> "array"
      [] v.t = "number" -> "number"
      [] v.t = "boolean" -> "boolean"
      [] v.t = "string" /\ ClaimLeadingDate(v.s) -> "date"
      [] v.t = "string" /\ ~ClaimLeadingDate(v.s) /\ ClaimNumeric(v.s) -> "number-string"
      [] v.t = "string" /\ ~ClaimLeadingDate(v.s) /\ ~ClaimNumeric(v.s) -> "string"
      [] v.t = "object" -> "object"
      [] OTHER -> "unknown"

\* C9: a schema field's type is the single value type observed in the rows
\* holding the key, and "mixed" exactly when two or more distinct types were
\* observed; each value is classified by the first matching rule in the
\* order null, array, number, boolean, date-like string, numeric string,
\* plain string, object, unknown.
C9_FieldType ==
    sOk => \A i \in 1..Len(sSchema) :
              LET observed == {ClaimType(v) : v \in ValuesOf(sRows, sSchema[i].name)}
              IN  /\ observed # {}
                  /\ Cardinality(observed) = 1 => sSchema[i].type \in observed
                  /\ (sSchema[i].type = "mixed") <=> (Cardinality(observed) >= 2)

C9_Witness ==
    /\ sOk
    /\ \E i, j \in 1..Len(sSchema) :
          /\ sSchema[i].type = "mixed"
          /\ sSchema[i].types = <<"date", "number-string">>
          /\ sSchema[j].type = "string"

\* C10: a field's coverage is round(100 * c / n), c the rows holding the key
\* and n all the input rows, so it is an integer between 0 and 100.
C10_CoverageRounded ==
    sOk => \A i \in 1..Len(sSchema) :
              LET c == Cardinality(RowsContaining(sRows, sSchema[i].name))
                  n == Len(sRows)
              IN  /\ sSchema[i].coverage = (200 * c + n) \div (2 * n)
                  /\ sSchema[i].coverage \in 0..100

\* C1: transformData never fails: for every dataset the uploader accepts
\* and every configuration the resolver produces it returns labels and
\* values and never raises.
C1_TransformNeverRaises ==
    tOut # None => tOut[1].kind = "ok"

\* C2: the transformation emitted by generateComponentCode is equivalent to
\* transformData: for every configuration and every non-empty dataset both
\* produce identical label and value sequences.
\* (Stated for the runs in which both return a result: the emitted text is
\* a program and neither transformation raises.)
C2_GeneratedEqualsPreview ==
    (tOut # None /\ Len(tData) > 0 /\ tOut[1].kind = "ok" /\ tGen[1].kind = "ok")
    => /\ tGen[1].labels = tOut[1].labels
       /\ tGen[1].values = tOut[1].values

\* the session schema's field names
SchemaNames == IF schema = None THEN {} ELSE {schema[1][i].name : i \in 1..Len(schema[1])}

\* C3: under any interleaving of chat submissions, delayed replies and
\* uploads, a configuration resolved from a previous dataset's schema is
\* never installed after the upload, so a non-empty x-field or y-field of
\* the installed configuration always names a field of the current session
\* schema.
C3_ConfigNamesCurrentSchema ==
    chartConfig # None =>
        \A f \in {chartConfig[1].xField, chartConfig[1].yField} : f = <<>> \/ f \in SchemaNames

\* the step that delivers the reply of a submission made under no schema or
\* under a schema with no fields
ReplyWithoutSchema ==
    /\ pending # None
    /\ pending[1].schema \in {None, Some(<<>>)}
    /\ pending' = None

\* C4: a chat submission made while the session schema is absent or has no
\* fields is answered by the fallback assistant message, produces no
\* configuration and leaves the installed configuration unchanged.
C4_NoSchemaIsIntentError ==
    [][ReplyWithoutSchema =>
          /\ messages' = Append(messages, Fallback)
          /\ chartConfig' = chartConfig]_vars

\* a processJson(text) step, from the text area or from the file reader
ProcessJsonStep(text) ==
    \/ HandlePaste(text)
    \/ reading = Some(text) /\ ReaderOnload

NoObjectRow(text) ==
    /\ text.ok
    /\ \A i \in 1..Len(RowsOfText(text)) : ~IsObjectRow(RowsOfText(text)[i])

\* C5: valid JSON that is an empty array, or an array or single value with
\* no object row, is reported with the fixed validation message and the
\* session's data, schema and configuration are left unchanged.
C5_NoObjectRowIsValidationError ==
    [][\A text \in UploadTexts :
          (NoObjectRow(text) /\ ProcessJsonStep(text)) =>
              /\ error' = Some(MsgNotArray)
              /\ UNCHANGED <<data, schema, chartConfig>>]_vars

\* C6: when the text fails to parse as JSON, processJson only reports the
\* error: the session's data, schema and chart configuration and the
\* uploader's own schema and row count keep their values.
C6_ParseFailureOnlyReports ==
    [][\A text \in UploadTexts :
          (~text.ok /\ ProcessJsonStep(text)) =>
              /\ error' = Some(MsgInvalidJson)
              /\ UNCHANGED <<data, schema, chartConfig, upSchema, rowCount>>]_vars

\* a parse failure was reported over a loaded dataset, an installed
\* configuration and the uploader's schema view
C6_Witness ==
    /\ error = Some(MsgInvalidJson)
    /\ data # None
    /\ chartConfig # None
    /\ upSchema # None
    /\ rowCount > 0


\* the names of the schema given to the resolver
rNames == {rSchema[i].name : i \in 1..Len(rSchema)}

\* C11: for every text and every non-empty schema, the x-field and the
\* y-field of the returned configuration are each the empty string or the
\* name of a field of that schema.
C11_FieldsNameSchemaFields ==
    rConfig # None =>
        \A f \in {rConfig[1].xField, rConfig[1].yField} : f = <<>> \/ f \in rNames

\* both fields were taken from names the request mentions in another case
C11_Witness ==
    /\ rConfig # None
    /\ rConfig[1].xField = <<"C","a","t","e","g","o","r","y">>
    /\ rConfig[1].yField = <<"c","o","s","t">>
    /\ Includes(rText, <<"c","a","t","e","g","o","r","y">>)

\* the schema fields whose name occurs, ignoring case, in the request
Mentioned == {i \in 1..Len(rSchema) : Includes(ToLowerCase(rText), ToLowerCase(rSchema[i].name))}

XCandidates == {i \in Mentioned : rSchema[i].type \in {"date", "string"}}

YCandidates == {i \in Mentioned : rSchema[i].type \in {"number", "number-string"}}

First(S) == CHOOSE i \in S : \A j \in S : i <= j

Last(S) == CHOOSE i \in S : \A j \in S : j <= i

\* C12: among the schema fields whose name occurs in the text, the x-field
\* is the first in schema order of type date or string, and the y-field is
\* the last in schema order of type number or number-string.
C12_FirstXLastY ==
    rConfig # None =>
        /\ XCandidates # {} => rConfig[1].xField = rSchema[First(XCandidates)].name
        /\ YCandidates # {} => rConfig[1].yField = rSchema[Last(YCandidates)].name

\* the first field of one of the types, else the field at position k, else
\* the empty string
FallbackName(typeLists, k) ==
    LET ofType(types) == {i \in 1..Len(rSchema) : rSchema[i].type \in types}
        hits == {n \in 1..Len(typeLists) : ofType(typeLists[n]) # {}}
    IN  IF hits # {} THEN rSchema[First(ofType(typeLists[First(hits)]))].name
        ELSE IF k <= Len(rSchema) THEN rSchema[k].name
        ELSE <<>>

\* C13: the x fallback applies only if no date or string field name
\* matched: then x is the first date field, else the first string field,
\* else the first schema field, else empty. The y fallback applies only if
\* no numeric field name matched: then y is the first number or
\* number-string field, else the second schema field, else empty.
C13_Fallbacks ==
    rConfig # None =>
        /\ rConfig[1].xField =
              IF XCandidates # {} THEN rSchema[First(XCandidates)].name
              ELSE FallbackName(<<{"date"}, {"string"}>>, 1)
        /\ rConfig[1].yField =
              IF YCandidates # {} THEN rSchema[Last(YCandidates)].name
              ELSE FallbackName(<<{"number", "number-string"}>>, 2)

\* the keyword occurs in the request
Has(keyword) == Includes(ToLowerCase(rText), keyword)

\* C14: in each category the keyword checked last wins, in the order
\* bar < pie/donut < scatter/point, by month < by week < by day < by year,
\* average/avg/mean < count < max < min; without a keyword the defaults
\* are line, no grouping and sum; a category depends on its own keywords
\* only.
C14_LastCheckWins ==
    rConfig # None =>
        /\ rConfig[1].chartType =
              (IF Has(<<"s","c","a","t","t","e","r">>) \/ Has(<<"p","o","i","n","t">>) THEN "scatter"
               ELSE IF Has(<<"p","i","e">>) \/ Has(<<"d","o","n","u","t">>) THEN "pie"
               ELSE IF Has(<<"b","a","r">>) THEN "bar"
               ELSE "line")
        /\ rConfig[1].groupBy =
              (IF Has(<<"b","y"," ","y","e","a","r">>) THEN Some("year")
               ELSE IF Has(<<"b","y"," ","d","a","y">>) THEN Some("day")
               ELSE IF Has(<<"b","y"," ","w","e","e","k">>) THEN Some("week")
               ELSE IF Has(<<"b","y"," ","m","o","n","t","h">>) THEN Some("month")
               ELSE None)
        /\ rConfig[1].aggregate =
              (IF Has(<<"m","i","n">>) THEN "min"
               ELSE IF Has(<<"m","a","x">>) THEN "max"
               ELSE IF Has(<<"c","o","u","n","t">>) THEN "count"
               ELSE IF Has(<<"a","v","e","r","a","g","e">>) \/ Has(<<"a","v","g">>) \/ Has(<<"m","e","a","n">>) THEN "average"
               ELSE "sum")

\* a request naming two groupings resolved to the one checked last
C14_Witness ==
    /\ rConfig # None
    /\ rText = <<"b","y"," ","y","e","a","r"," ","b","y"," ","m","o","n","t","h">>
    /\ rConfig[1].groupBy = Some("year")
    /\ rConfig[1].chartType = "line"
    /\ rConfig[1].aggregate = "sum"

\* the rows given to the transformer, its configuration, and whether both
\* transformations were applied and the preview returned a series
tRows == JsonParseRows(tData)

tCfg == tConfig[1]

tDone == tOut # None /\ tOut[1].kind = "ok"

tGrouped == tCfg.groupBy # None /\ tCfg.xField # <<>>

\* the rows the filter of the configuration retains
tKept == ApplyFilter(tRows, tCfg)

Unfiltered(config) == [config EXCEPT !.filter = None]

\* the rows that hold the field with a value equal, ignoring case, to the value
HoldingEqual(rows, field, value) ==
    SelectSeq(rows, LAMBDA item :
        /\ GetProp(item, field) # Undefined
        /\ ToLowerCase(StringOf(GetProp(item, field))) = ToLowerCase(value))

\* C15: with a filter set, transformData retains exactly the rows whose
\* filter-field value, stringified, equals the filter value ignoring case;
\* a row without the filter field is dropped, whatever the filter value.
C15_FilterRetains ==
    (tDone /\ tCfg.filter # None) =>
        tOut[1] = transformData(HoldingEqual(tRows, tCfg.filter[1].field, tCfg.filter[1].value),
                                Unfiltered(tCfg), tzWest)

\* a date-only string YYYY-MM-DD that names a day of the calendar
IsDateOnly(v) == v.t = "string" /\ Len(v.s) = 10 /\ DateParse(v.s) # NaD

\* C16: under month grouping a row whose x value is a date-only string
\* falls in the bucket of its own year and month (YYYY-MM), under year
\* grouping in the bucket YYYY, whatever the time zone; the rows
\* (2024-01-01, 10), (2024-01-15, 20), (2024-02-01, 5) with month grouping
\* and sum yield the labels 2024-01, 2024-02 and the values 30, 5.
C16_OwnMonthAndYear ==
    (tDone /\ tGrouped /\ tCfg.groupBy[1] \in {"month", "year"}) =>
        /\ \A i \in 1..Len(tKept) :
              LET x == GetProp(tKept[i], tCfg.xField)
              IN  IsDateOnly(x) =>
                     \E k \in 1..Len(tOut[1].labels) :
                        tOut[1].labels[k] =
                           SubSeq(x.s, 1, IF tCfg.groupBy[1] = "month" THEN 7 ELSE 4)
        /\ (tData = DataMonths /\ tCfg.groupBy[1] = "month" /\ tCfg.aggregate = "sum"
               /\ tCfg.filter = None) =>
              /\ tOut[1].labels = << <<"2","0","2","4","-","0","1">>, <<"2","0","2","4","-","0","2">> >>
              /\ tOut[1].values = <<RatInt(30), RatInt(5)>>

RECURSIVE ClaimSum(_)
ClaimSum(ys) == IF ys = <<>> THEN RatInt(0) ELSE RatAdd(Head(ys), ClaimSum(Tail(ys)))

\* the value the claim gives a bucket of numeric y-values
ClaimAggregate(ys, aggregate) ==
    CASE aggregate = "sum"     -> ClaimSum(ys)
      [] aggregate = "average" -> Rat(ClaimSum(ys).p, ClaimSum(ys).q * Len(ys))
      [] aggregate = "count"   -> RatInt(Len(ys))
      [] aggregate = "max"     ->
            CHOOSE m \in {ys[j] : j \in 1..Len(ys)} : \A j \in 1..Len(ys) : ~RatLess(m, ys[j])
      [] aggregate = "min"     ->
            CHOOSE m \in {ys[j] : j \in 1..Len(ys)} : \A j \in 1..Len(ys) : ~RatLess(ys[j], m)

\* the retained rows of the bucket
BucketRows(label) == SelectSeq(tKept, LAMBDA item : GroupKey(item, tCfg, tzWest) = label)

\* C17: when grouping applies, each bucket's value is computed over the
\* numeric y-values of its rows, a missing y counting as 0: their sum,
\* their sum divided by the number of rows, the number of rows, the
\* largest or the smallest of them.
C17_BucketValues ==
    (tDone /\ tGrouped) =>
        \A k \in 1..Len(tOut[1].labels) :
            LET items == BucketRows(tOut[1].labels[k])
                ys    == [j \in 1..Len(items) |-> YValue(items[j], tCfg)]
            IN  /\ \A j \in 1..Len(items) :
                      GetProp(items[j], tCfg.yField) = Undefined => ys[j] = RatInt(0)
                /\ tOut[1].values[k] = ClaimAggregate(ys, tCfg.aggregate)

\* the bucket of the values 10 and 20 has the average 15
C17_Witness ==
    /\ tDone
    /\ tData = DataMonths
    /\ ~tzWest
    /\ tCfg.groupBy = Some("month")
    /\ tCfg.aggregate = "average"
    /\ tCfg.filter = None
    /\ tOut[1].values = <<RatInt(15), RatInt(5)>>

\* the characters of the labels, in code-unit order
CodeUnits ==
    << " ", "!", "\"", "#", "$", "%", "&", "'", "(", ")", "*", "+", ",", "-", ".", "/",
       "0", "1", "2", "3", "4", "5", "6", "7", "8", "9", ":", ";", "<", "=", ">", "?",
       "@", "A", "B", "C", "D", "E", "F", "G", "H", "I", "J", "K", "L", "M", "N", "O",
       "P", "Q", "R", "S", "T", "U", "V", "W", "X", "Y", "Z", "[", "]", "^", "_",
       "a", "b", "c", "d", "e", "f", "g", "h", "i", "j", "k", "l", "m", "n", "o",
       "p", "q", "r", "s", "t", "u", "v", "w", "x", "y", "z", "{", "|", "}", "~" >>

CodeOf(c) == CHOOSE i \in 1..Len(CodeUnits) : CodeUnits[i] = c

RECURSIVE LexLess(_, _)
\* a precedes b in lexicographic string order
LexLess(a, b) ==
    IF b = <<>> THEN FALSE
    ELSE IF a = <<>> THEN TRUE
    ELSE IF Head(a) = Head(b) THEN LexLess(Tail(a), Tail(b))
    ELSE CodeOf(Head(a)) < CodeOf(Head(b))

\* C18: when group-by and x-field are both set, the output has one label
\* per distinct bucket key of the retained rows, as many values as labels,
\* and the labels in strictly ascending lexicographic order; no retained
\* row gives empty labels and values.
C18_SortedBuckets ==
    (tDone /\ tGrouped) =>
        LET labels == tOut[1].labels
            keys   == {GroupKey(tKept[i], tCfg, tzWest) : i \in 1..Len(tKept)}
        IN  /\ Len(labels) = Len(tOut[1].values)
            /\ {labels[k] : k \in 1..Len(labels)} = keys
            /\ Len(labels) = Cardinality(keys)
            /\ \A k \in 1..(Len(labels) - 1) : LexLess(labels[k], labels[k + 1])
            /\ tKept = <<>> => (labels = <<>> /\ tOut[1].values = <<>>)

\* the raw stringified value of the field, the empty string when absent
RawLabel(item, field) ==
    IF GetProp(item, field) = Undefined THEN <<>> ELSE StringOf(GetProp(item, field))

\* C19: when group-by is unset, the output has one label and one value per
\* retained row, in row order; each label is the raw stringified x value
\* of its row (empty when the field is absent), each value the parsed y
\* value or 0; the aggregate has no effect.
C19_UngroupedRows ==
    (tDone /\ tCfg.groupBy = None) =>
        /\ Len(tOut[1].labels) = Len(tKept)
        /\ Len(tOut[1].values) = Len(tKept)
        /\ \A i \in 1..Len(tKept) :
              /\ tOut[1].labels[i] = RawLabel(tKept[i], tCfg.xField)
              /\ tOut[1].values[i] = YValue(tKept[i], tCfg)

\* the filter phrase of the request, field and value as written
WrittenFilter == FilterMatch(tText)

NamesField(name) ==
    \E i \in 1..Len(tRows) :
        tRows[i].t = "object" /\ \E j \in 1..Len(tRows[i].e) : tRows[i].e[j].k = name

\* C20: a request with a filter phrase `where F = V`, F the name of a
\* field of the data as written, yields a preview that retains exactly the
\* rows whose F value equals V ignoring case.
C20_FilterEndToEnd ==
    (tDone /\ WrittenFilter # None /\ NamesField(WrittenFilter[1].field)) =>
        tOut[1] = transformData(
                      SelectSeq(tRows, LAMBDA item :
                          ToLowerCase(StringOf(GetProp(item, WrittenFilter[1].field)))
                             = ToLowerCase(WrittenFilter[1].value)),
                      Unfiltered(tCfg), tzWest)

\* C21: the session's dataset is replaced on reset as on upload: after the
\* user resets the uploader the session holds no dataset, schema or
\* configuration until the next successful upload, so the uploader's view
\* and the session never disagree about whether data is loaded.
\* (Stated for the sessions whose dataset has fields.)
C21_ResetClearsSession ==
    (schema # None => schema[1] # <<>>) =>
        /\ upSchema = None => (data = None /\ schema = None /\ chartConfig = None)
        /\ (upSchema # None) <=> (data # None)

\* the step keeps every message in place and appends at most one
AppendsAtMostOne ==
    \/ messages' = messages
    \/ /\ Len(messages') = Len(messages) + 1
       /\ SubSeq(messages', 1, Len(messages)) = messages

\* a submission is accepted: the user message is appended and the reply awaited
Accepting ==
    /\ pending' # None
    /\ messages' = Append(messages, UserMessage(pending'[1].msg))
    /\ isLoading'

\* the one reply of the pending submission: the summary or the fallback
Replying ==
    /\ pending' = None
    /\ Len(messages') = Len(messages) + 1
    /\ messages'[Len(messages')].role = "assistant"
    /\ messages'[Len(messages')].kind \in {"summary", "fallback"}
    /\ ~isLoading'

\* C22: the conversation is append-only and strictly request/reply: an
\* accepted submission appends the user message and is eventually followed
\* by exactly one assistant message, the summary or the fallback; no
\* submission is accepted while one is pending; the loading flag is
\* eventually cleared; no message is ever removed, changed or reordered.
C22_RequestReply ==
    /\ [][AppendsAtMostOne]_vars
    /\ [][(pending = None /\ pending' # None) => Accepting]_vars
    /\ [][(pending # None /\ (pending' # pending \/ messages' # messages)) => Replying]_vars
    /\ [][(pending = None /\ pending' = None /\ messages' # messages) =>
             (messages = <<>> /\ messages'[1].kind = "greeting")]_vars
    /\ [](isLoading <=> pending # None)
    /\ [](pending # None => ~Crashed)
    /\ [][TimerFires => Replying]_vars
    /\ (pending # None) ~> (pending = None)
    /\ isLoading ~> ~isLoading

\* a greeting, a request and its reply, with nothing pending
C22_Witness ==
    /\ Len(messages) = 3
    /\ messages[1].kind = "greeting"
    /\ messages[2].role = "user"
    /\ messages[3].kind = "summary"
    /\ pending = None
    /\ ~isLoading
=============================================================================
